---- MODULE Spec2Model ----
(***************************************************************************)
(* A model of iar-migrate: upload.py (the upload reconciler, which posts   *)
(* or puts migrated assets to the IAR endpoint) and migrate.py (the        *)
(* spreadsheet migration with its institution resolver).                   *)
(*                                                                         *)
(* Python text is modelled as a sequence of tokens, so that '+' is \o and  *)
(* str.endswith looks at the last token.  Python dicts are functions       *)
(* whose DOMAIN is the set of keys.                                        *)
(***************************************************************************)
EXTENDS Integers, Sequences, FiniteSets, TLC

\* ------------------------------------------------------------------ bounds
\* Longest stream of asset documents given to one upload run.
MaxDocs == 2
\* Longest list of matches one directory search returns.
MaxMatches == 2
\* Number of rows of the spreadsheet.
MaxRows == 2
\* Number of upload runs in a row, each later run being given the report
\* of the run before it as --previous-report.
MaxRuns == 2

\* --------------------------------------------------------------- variables
VARIABLES
    \* upload.py
    endpoint,         \* opts['<endpoint>']
    previous_report,  \* the --previous-report option: NoFile, or File(content)
    documents,        \* content of the <document> files: a stream of documents
    remote,           \* ids of the assets the registry at the endpoint holds
    id_map,           \* main's id_map
    pos,              \* number of documents load_docs has read
    reports,          \* the upload reports process_documents has yielded
    requests,         \* the HTTP requests the session has issued in this run
    r,                \* the last response of the session (process_documents' r)
    prev_read,        \* whether main has opened the previous report
    upc,              \* where main is: "start", "load", "process", "done", "raised"
    exc,              \* the exception that ended the run, or "none"
    run               \* ordinal of the upload run

upload_vars == <<endpoint, previous_report, documents, remote, id_map, pos,
                 reports, requests, r, prev_read, upc, exc, run>>

VARIABLES
    \* migrate.py
    fixups_file,      \* the --fixups option: NoFixups, or the list the file holds
    rows,             \* the rows of the CSV after the skipped ones
    fixups,           \* context.fixups['institutions']
    cached_insts,     \* context._cached_insts
    departments,      \* context.departments
    searched,         \* per name, the queries im.search was called with for it
    returned,         \* per name, what the first call without a fixup returned
    last_call,        \* the last call of resolve_institution and what it did
    index,            \* number of rows migrate_rows has taken
    mapping,          \* the report's original_dept_mapping, as far as computed
    out,              \* the documents migrate_rows has yielded
    mpc,              \* "start", "rows", "done", "raised"; "context" in SpecContext
    mexc              \* the exception that ended the migration, or "none"

migrate_vars == <<fixups_file, rows, fixups, cached_insts, departments, searched,
                  returned, last_call, index, mapping, out, mpc, mexc>>

VARIABLES
    \* one hunt of resolve_institution (lines 57-83) against given replies
    hname,            \* inst_name
    hreplies,         \* what im.search answers to each of the three candidates
    hk,               \* number of candidates searched so far
    hresult,          \* self._cached_insts[inst_name]
    hpc               \* "hunting", "done", "raised"

hunt_vars == <<hname, hreplies, hk, hresult, hpc>>

vars == <<upload_vars, migrate_vars, hunt_vars>>

\* ------------------------------------------------------------ python values
\* Python's None, the absent --previous-report, and "no response yet": values
\* outside the texts the inputs are drawn from.
None == "<None>"
NoFile == [is_none |-> TRUE, file |-> <<>>]
File(content) == [is_none |-> FALSE, file |-> content]
NoResponse == [status |-> 0]

\* ------------------------------------------------------------------ inputs
Endpoints == {<<"h", "/">>, <<"h">>, <<>>, <<"/", "h">>}
SourceIds == {"s1", "s2"}
DestIds == {"d1", "d2", "d3"}
AssetNames == {"", None, "Printers"}
ErrorBody == "bad request"

AssetDoc(id, name) == [type |-> "asset", asset |-> [id |-> id, name |-> name]]
AssetDocs == {AssetDoc(id, name) : id \in SourceIds, name \in AssetNames}
\* The trailing department report migrate.py writes into the same stream,
\* and a document without a type.
DeptReportDoc == [type |-> "report"]
UntypedDoc == [original_dept_mapping |-> "none"]

SeqsUpTo(S, n) == UNION {[1..k -> S] : k \in 0..n}

\* The document streams a run can be given: asset documents and documents
\* of another kind, in any order.
DocumentStreams == SeqsUpTo(AssetDocs \cup {DeptReportDoc, UntypedDoc}, MaxDocs)

\* -------------------------------------------------------------------- YAML
\* yaml.dump_all writes each mapping as its key: value lines, keys sorted;
\* yaml.load_all reads the lines back into a mapping.
KeyOrder == <<"dest_id", "error", "method", "source_id", "type", "url">>

yaml_dump(doc) ==
    LET HasKey(k) == k \in DOMAIN doc
        ks == SelectSeq(KeyOrder, HasKey)
    IN  [i \in 1..Len(ks) |-> <<ks[i], doc[ks[i]]>>]

yaml_load(text) ==
    [k \in {text[i][1] : i \in DOMAIN text} |->
        text[CHOOSE i \in DOMAIN text : text[i][1] = k][2]]

yaml_dump_all(docs) == [i \in DOMAIN docs |-> yaml_dump(docs[i])]
yaml_load_all(file) == [i \in DOMAIN file |-> yaml_load(file[i])]

\* A previous report written by hand or kept from an earlier session: the
\* successful reports only.
GivenReports ==
    { yaml_dump_all(<<>>),
      yaml_dump_all(<<[source_id |-> "s1", type |-> "upload", method |-> "POST",
                       dest_id |-> "d1"]>>),
      yaml_dump_all(<<[type |-> "report"],
                      [source_id |-> "s1", type |-> "upload", method |-> "POST",
                       dest_id |-> "d1"],
                      [source_id |-> "s2", type |-> "upload", method |-> "PUT",
                       url |-> <<"h", "/", "d2", "/">>, dest_id |-> "d2"]>>) }

\* --------------------------------------------------------------- upload.py
\* A slip in the endpoint test: '/' in endpoint.
endswith_slash_anywhere(e) == \E i \in DOMAIN e : e[i] = "/"

\* endpoint.endswith('/')
endswith_slash(e) == Len(e) > 0 /\ e[Len(e)] = "/"

\* 'type' not in doc or doc['type'] != wanted  (the filter of both loaders)
wrong_type(doc, wanted) == "type" \notin DOMAIN doc \/ doc["type"] # wanted

\* id_map.get(key)
dict_get(d, key) == IF key \in DOMAIN d THEN d[key] ELSE None

\* d[key] = value
dict_set(d, key, value) ==
    [k \in DOMAIN d \cup {key} |-> IF k = key THEN value ELSE d[k]]

\* d.get(key, [])
dict_get_seq(d, key) == IF key \in DOMAIN d THEN d[key] ELSE <<>>

\* r.raise_for_status() raises HTTPError
raises_HTTPError(resp) == resp.status >= 400 /\ resp.status < 600

\* url = endpoint + dest_id + '/'
asset_url(e, dest_id) == e \o <<dest_id>> \o <<"/">>

\* The loop of main over the previous report (lines 52-55), from the i-th
\* document on: the id map built, or "KeyError" when an upload document has
\* no dest_id (or no source_id).
RECURSIVE load_previous(_, _, _)
load_previous(docs, i, m) ==
    IF i > Len(docs) THEN [raised |-> "none", id_map |-> m]
    ELSE LET doc == docs[i] IN
         IF wrong_type(doc, "upload") THEN load_previous(docs, i + 1, m)
         ELSE IF "source_id" \notin DOMAIN doc \/ "dest_id" \notin DOMAIN doc
              THEN [raised |-> "KeyError", id_map |-> m]
              ELSE load_previous(docs, i + 1,
                       dict_set(m, doc["source_id"], doc["dest_id"]))

EmptyMap == [k \in {} |-> None]

\* load_docs: the index of the next asset document after position p, or 0.
next_asset(p) ==
    LET later == {i \in (p + 1)..Len(documents) : ~wrong_type(documents[i], "asset")}
    IN  IF later = {} THEN 0 ELSE CHOOSE i \in later : \A j \in later : i <= j

\* The asset documents among the first p documents, in order.
assets_read(p) ==
    LET IsAsset(d) == ~wrong_type(d, "asset")
    IN  SelectSeq(SubSeq(documents, 1, p), IsAsset)

\* ------------------------------------------------------ the remote registry
\* What the session's calls can do.  A call returns a response or raises a
\* transport error (requests.ConnectionError), written ConnectionError.
ConnectionError == [status |-> -1]

\* GET endpoint/dest_id/: 404 if the registry does not hold the asset.
get_outcomes(dest_id) ==
    {ConnectionError, [status |-> 500],
     IF dest_id \in remote THEN [status |-> 200] ELSE [status |-> 404]}

\* PUT endpoint/dest_id/: the asset updated, or refused.
put_outcomes(dest_id) ==
    {ConnectionError, [status |-> 400, content |-> ErrorBody]}
    \cup (IF dest_id \in remote
          THEN {[status |-> 200, id |-> dest_id]}
          ELSE {[status |-> 404, content |-> ErrorBody]})

\* POST endpoint: a new asset under an id the registry chooses, or refused.
post_outcomes ==
    {ConnectionError, [status |-> 400, content |-> ErrorBody],
     [status |-> 500, content |-> ErrorBody]}
    \cup {[status |-> 201, id |-> d] : d \in DestIds \ remote}

\* ------------------------------------------------------------------- main
\* One call of the session as the log keeps it: the method, the url and the
\* status of the response (-1 when the call raised).
Request(method, url, resp) == [method |-> method, url |-> url, status |-> resp.status]

\* A slip at lines 79-80: the continue the log message announces.
skipped_with_continue(original_asset) ==
    original_asset.name = "" \/ original_asset.name = None

\* Lines 79-80: an asset with an empty or null name is logged as skipped,
\* but there is no continue: the loop body goes on with it.
skipped(original_asset) == FALSE


\* A slip in the existence check: the 404 is not looked at.
already_exists_unchecked(dest_id, get) == dest_id # None

\* already_exists after the existence check (lines 89-96); get is the
\* response of the GET, looked at only when there is a mapping.
already_exists(dest_id, get) == dest_id # None /\ get.status # 404

\* A slip in the failure branch: the report is given a dest_id as well.
make_report_with_dest_id(source_id, exists, url, resp) ==
    LET base == [source_id |-> source_id, type |-> "upload", dest_id |-> None]
        sent == IF exists
                THEN dict_set(dict_set(base, "method", "PUT"), "url", url)
                ELSE dict_set(base, "method", "POST")
    IN  IF raises_HTTPError(resp)
        THEN dict_set(sent, "error", resp.content)
        ELSE dict_set(sent, "dest_id", resp.id)

\* A variant that records the status of the response in the report.
make_report_with_status(source_id, exists, url, resp) ==
    LET base == [source_id |-> source_id, type |-> "upload",
                 status_code |-> resp.status]
        sent == IF exists
                THEN dict_set(dict_set(base, "method", "PUT"), "url", url)
                ELSE dict_set(base, "method", "POST")
    IN  IF raises_HTTPError(resp)
        THEN dict_set(sent, "error", resp.content)
        ELSE dict_set(sent, "dest_id", resp.id)

\* The report of one asset once its response is in (lines 85, 99-118).
make_report(source_id, exists, url, resp) ==
    LET base == [source_id |-> source_id, type |-> "upload"]
        sent == IF exists
                THEN dict_set(dict_set(base, "method", "PUT"), "url", url)
                ELSE dict_set(base, "method", "POST")
    IN  IF raises_HTTPError(resp)
        THEN dict_set(sent, "error", resp.content)
        ELSE dict_set(sent, "dest_id", resp.id)

\* The hunt's variables while the model follows something else.
HuntIdle ==
    /\ hname = <<>>
    /\ hreplies = <<>>
    /\ hk = 0
    /\ hresult = None
    /\ hpc = "idle"

\* The migration's variables while the model follows an upload.
MigrateIdle ==
    /\ fixups_file = <<>>
    /\ rows = <<>>
    /\ fixups = <<>>
    /\ cached_insts = <<>>
    /\ departments = {}
    /\ searched = <<>>
    /\ returned = <<>>
    /\ last_call = <<>>
    /\ index = 0
    /\ mapping = <<>>
    /\ out = <<>>
    /\ mpc = "idle"
    /\ mexc = "none"

InitUpload ==
    /\ endpoint \in Endpoints
    /\ previous_report \in {NoFile} \cup {File(f) : f \in GivenReports}
    /\ documents \in DocumentStreams
    /\ remote \in {{}, {"d1"}, {"d1", "d2"}}
    /\ id_map = EmptyMap
    /\ pos = 0
    /\ reports = <<>>
    /\ requests = <<>>
    /\ r = NoResponse
    /\ prev_read = FALSE
    /\ upc = "start"
    /\ exc = "none"
    /\ run = 1
    /\ MigrateIdle
    /\ HuntIdle

\* Lines 42-44.
CheckEndpoint ==
    /\ upc = "start"
    /\ IF endswith_slash(endpoint)
       THEN upc' = "load" /\ exc' = "none"
       ELSE upc' = "raised" /\ exc' = "RuntimeError"
    /\ UNCHANGED <<endpoint, previous_report, documents, remote, id_map, pos,
                   reports, requests, r, prev_read, run>>
    /\ UNCHANGED <<migrate_vars, hunt_vars>>

\* Lines 46-55.
LoadPreviousReport ==
    /\ upc = "load"
    /\ IF previous_report = NoFile
       THEN /\ id_map' = EmptyMap
            /\ prev_read' = FALSE
            /\ upc' = "process"
            /\ exc' = "none"
       ELSE LET got == load_previous(yaml_load_all(previous_report.file), 1, EmptyMap)
            IN  /\ id_map' = got.id_map
                /\ prev_read' = TRUE
                /\ exc' = got.raised
                /\ upc' = IF got.raised = "none" THEN "process" ELSE "raised"
    /\ UNCHANGED <<endpoint, previous_report, documents, remote, pos,
                   reports, requests, r, run>>
    /\ UNCHANGED <<migrate_vars, hunt_vars>>

\* One turn of the loop of process_documents (lines 76-118), with the
\* documents load_docs skips on the way to the next asset document.
id_map_after_learning(m, yielded, yielded_after) ==
    IF Len(yielded_after) > Len(yielded)
          /\ "dest_id" \in DOMAIN yielded_after[Len(yielded_after)]
    THEN dict_set(m, yielded_after[Len(yielded_after)].source_id,
                  yielded_after[Len(yielded_after)].dest_id)
    ELSE m

\* The id map after a turn of the loop of process_documents (lines 76-118):
\* the loop reads it (line 87) and has no assignment to it, whatever report
\* the turn yields.
id_map_after(m, yielded, yielded_after) == m

ProcessDocument ==
    /\ upc = "process"
    /\ next_asset(pos) # 0
    /\ LET i == next_asset(pos)
           original_asset == documents[i].asset
           dest_id == dict_get(id_map, original_asset.id)
           url == asset_url(endpoint, dest_id)
       IN  /\ pos' = i
           /\ IF skipped(original_asset)
              THEN UNCHANGED <<requests, r, upc, exc, reports, remote>>
              ELSE
              \E get \in (IF dest_id # None THEN get_outcomes(dest_id)
                                           ELSE {NoResponse}) :
                LET gets == IF dest_id # None THEN <<Request("GET", url, get)>>
                                              ELSE <<>>
                IN
                IF get = ConnectionError
                THEN /\ requests' = requests \o gets
                     /\ upc' = "raised"
                     /\ exc' = "ConnectionError"
                     /\ UNCHANGED <<r, reports, remote>>
                ELSE LET exists == already_exists(dest_id, get)
                     IN  \E resp \in (IF exists THEN put_outcomes(dest_id)
                                              ELSE post_outcomes) :
                           /\ requests' = requests \o gets \o
                                  <<IF exists THEN Request("PUT", url, resp)
                                              ELSE Request("POST", endpoint, resp)>>
                           /\ IF resp = ConnectionError
                              THEN /\ r' = IF dest_id # None THEN get ELSE r
                                   /\ upc' = "raised"
                                   /\ exc' = "ConnectionError"
                                   /\ UNCHANGED <<reports, remote>>
                              ELSE /\ r' = resp
                                   /\ reports' = Append(reports,
                                        make_report(original_asset.id, exists, url, resp))
                                   /\ remote' = IF ~exists /\ ~raises_HTTPError(resp)
                                                THEN remote \cup {resp.id}
                                                ELSE remote
                                   /\ UNCHANGED <<upc, exc>>
    /\ id_map' = id_map_after(id_map, reports, reports')
    /\ UNCHANGED <<endpoint, previous_report, documents, prev_read, run>>
    /\ UNCHANGED <<migrate_vars, hunt_vars>>

\* load_docs is exhausted: process_documents returns and the report is
\* complete (lines 67-71).
FinishUpload ==
    /\ upc = "process"
    /\ next_asset(pos) = 0
    /\ pos' = Len(documents)
    /\ upc' = "done"
    /\ UNCHANGED <<endpoint, previous_report, documents, remote, id_map,
                   reports, requests, r, prev_read, exc, run>>
    /\ UNCHANGED <<migrate_vars, hunt_vars>>

\* The upload is run again over the same documents, with the report the
\* finished run wrote given as --previous-report (usage, lines 7-8 and 17).
RunAgain ==
    /\ upc = "done"
    /\ run < MaxRuns
    /\ previous_report' = File(yaml_dump_all(reports))
    /\ id_map' = EmptyMap
    /\ pos' = 0
    /\ reports' = <<>>
    /\ requests' = <<>>
    /\ r' = NoResponse
    /\ prev_read' = FALSE
    /\ upc' = "start"
    /\ exc' = "none"
    /\ run' = run + 1
    /\ UNCHANGED <<endpoint, documents, remote>>
    /\ UNCHANGED <<migrate_vars, hunt_vars>>

NextUpload ==
    \/ CheckEndpoint
    \/ LoadPreviousReport
    \/ ProcessDocument
    \/ FinishUpload
    \/ RunAgain

SpecUpload == InitUpload /\ [][NextUpload]_vars

\* -------------------------------------------------------------- migrate.py
\* Department texts of the spreadsheet, in the order sorted() gives them.
DeptOrder == <<<<"Bar">>, <<"Department of ", "Foo">>, <<"Foo">>>>
DeptTexts == {DeptOrder[i] : i \in DOMAIN DeptOrder}
RowNames == {"", "Printers", "1"}

\* A row of the CSV: the two cells the model follows and the number of
\* cells the row has.  extract_row drops skip_cols cells and then reads the
\* cells 1 to LastColumn of the rest.
skip_cols == 1
LastColumn == 49
Row(dept, name, cells) == [faculty_dept_inst |-> dept, name |-> name, cells |-> cells]
ShortRow == Row(<<"Foo">>, "Printers", skip_cols + LastColumn)
Rows ==
    {Row(d, n, skip_cols + LastColumn + 1) : d \in DeptTexts, n \in RowNames}
        \cup {ShortRow}

\* The institutions the directory can answer with; two of them share a name.
Inst(name, instid) == [name |-> name, instid |-> instid]
Institutions ==
    {Inst(<<"Foo">>, "FOO"), Inst(<<"Foo">>, "FOO2"),
     Inst(<<"Department of ", "Foo">>, "DFOO"),
     Inst(<<"Faculty of ", "Foo">>, "FFOO")}

\* What im.search can do: an IbisException, or a list of distinct institutions.
Reply(matches) == [raised |-> FALSE, matches |-> matches]
IbisException == [raised |-> TRUE, matches |-> <<>>]
SearchReplies ==
    {IbisException} \cup
    {Reply(m) : m \in {q \in SeqsUpTo(Institutions, MaxMatches) :
                          \A i, j \in DOMAIN q : i # j => q[i] # q[j]}}

\* The fixup lists a fixups file can hold.
Fixup(original, instid) == [original |-> original, instid |-> instid]
FixupLists ==
    {<<>>,
     <<Fixup(<<"Foo">>, "FIX1")>>,
     <<Fixup(<<"Bar">>, "FIX2"), Fixup(<<"Foo">>, "FIX1"), Fixup(<<"Foo">>, "FIX3")>>}
NoFixups == <<Fixup(<<>>, "<no file>")>>

\* for prefix in ['', 'Department of ', 'Faculty of ']
Prefixes == <<<<>>, <<"Department of ">>, <<"Faculty of ">>>>

\* Lines 50-52: the instid of the first fixup record for the name.
fixup_lookup(fx, inst_name) ==
    LET hits == {i \in DOMAIN fx : fx[i].original = inst_name}
    IN  IF hits = {} THEN [found |-> FALSE, instid |-> None]
        ELSE [found |-> TRUE,
              instid |-> fx[CHOOSE i \in hits : \A j \in hits : i <= j].instid]

\* Lines 68-81: what the matches of one candidate decide: accepted by its
\* one exact match ("exact"), skipped, or accepted as the sole match ("sole").
candidate_first_match(search, matches) ==
    LET IsExact(inst) == inst.name = search
        exact_matches == SelectSeq(matches, IsExact)
    IN  IF Len(exact_matches) = 1
        THEN [accepted |-> TRUE, instid |-> exact_matches[1].instid, how |-> "exact"]
        ELSE IF Len(matches) = 0
             THEN [accepted |-> FALSE, instid |-> None, how |-> "skip"]
             ELSE [accepted |-> TRUE, instid |-> matches[1].instid, how |-> "sole"]

candidate(search, matches) ==
    LET IsExact(inst) == inst.name = search
        exact_matches == SelectSeq(matches, IsExact)
    IN  IF Len(exact_matches) = 1
        THEN [accepted |-> TRUE, instid |-> exact_matches[1].instid, how |-> "exact"]
        ELSE IF Len(matches) # 1
             THEN [accepted |-> FALSE, instid |-> None, how |-> "skip"]
             ELSE [accepted |-> TRUE, instid |-> matches[1].instid, how |-> "sole"]

\* Lines 63-81: the loop over the prefixes from the k-th on; every way it can
\* go, as [trace, instid, raised].  The trace lists the searches made, each
\* with what came of it; the loop goes on to the next prefix when the
\* directory gave a reply that is skipped.
RECURSIVE hunt(_, _, _)
hunt(inst_name, k, trace) ==
    IF k > Len(Prefixes)
    THEN {[trace |-> trace, instid |-> None, raised |-> FALSE]}
    ELSE LET search == Prefixes[k] \o inst_name
             Made(how) == Append(trace, [search |-> search, how |-> how])
             replies == {reply \in SearchReplies : ~reply.raised}
             got == {candidate(search, reply.matches) : reply \in replies}
         IN  {[trace |-> Made("raised"), instid |-> None, raised |-> TRUE]
                 : reply \in {x \in SearchReplies : x.raised}}
             \cup {[trace |-> Made(g.how), instid |-> g.instid, raised |-> FALSE]
                     : g \in {x \in got : x.accepted}}
             \cup (IF \E g \in got : ~g.accepted
                   THEN hunt(inst_name, k + 1, Made("skip"))
                   ELSE {})

\* A slip in the order of the lookups: the cache is asked before the fixups.
resolve_institution_cache_first(fx, cache, inst_name) ==
    LET fix == fixup_lookup(fx, inst_name) IN
    IF inst_name \in DOMAIN cache
    THEN {[instid |-> cache[inst_name], cache |-> cache, trace |-> <<>>,
           raised |-> FALSE]}
    ELSE IF fix.found
         THEN {[instid |-> fix.instid, cache |-> cache, trace |-> <<>>,
                raised |-> FALSE]}
         ELSE {[instid |-> h.instid, cache |-> dict_set(cache, inst_name, h.instid),
                trace |-> h.trace, raised |-> h.raised]
               : h \in hunt(inst_name, 1, <<>>)}

\* A slip in the caching: an unresolved name (None) is not kept.
resolve_institution_positive_cache(fx, cache, inst_name) ==
    LET fix == fixup_lookup(fx, inst_name) IN
    IF fix.found
    THEN {[instid |-> fix.instid, cache |-> cache, trace |-> <<>>, raised |-> FALSE]}
    ELSE IF inst_name \in DOMAIN cache
         THEN {[instid |-> cache[inst_name], cache |-> cache, trace |-> <<>>,
                raised |-> FALSE]}
         ELSE {[instid |-> h.instid,
                cache |-> IF h.instid = None THEN cache
                          ELSE dict_set(cache, inst_name, h.instid),
                trace |-> h.trace, raised |-> h.raised]
               : h \in hunt(inst_name, 1, <<>>)}

\* resolve_institution (lines 49-83): every way the call can go from the
\* fixups fx and the cache, as [instid, cache, trace, raised].
resolve_institution(fx, cache, inst_name) ==
    LET fix == fixup_lookup(fx, inst_name) IN
    IF fix.found
    THEN {[instid |-> fix.instid, cache |-> cache, trace |-> <<>>, raised |-> FALSE]}
    ELSE IF inst_name \in DOMAIN cache
         THEN {[instid |-> cache[inst_name], cache |-> cache, trace |-> <<>>,
                raised |-> FALSE]}
         ELSE {[instid |-> h.instid, cache |-> dict_set(cache, inst_name, h.instid),
                trace |-> h.trace, raised |-> h.raised]
               : h \in hunt(inst_name, 1, <<>>)}

\* The bookkeeping of a call: the queries it searched for, filed under its
\* name, and the record of the call (its name, its result, its searches).
Queries(trace) == [i \in DOMAIN trace |-> trace[i].search]
note_searches(log, inst_name, trace) ==
    IF trace = <<>> THEN log
    ELSE dict_set(log, inst_name, dict_get_seq(log, inst_name) \o Queries(trace))
\* What the first call for a name that has no fixup returned.
note_return(log, fx, inst_name, res) ==
    IF res.raised \/ fixup_lookup(fx, inst_name).found \/ inst_name \in DOMAIN log
    THEN log
    ELSE dict_set(log, inst_name, res.instid)
Call(inst_name, res) ==
    <<[name |-> inst_name, instid |-> res.instid, trace |-> res.trace,
       raised |-> res.raised]>>

\* Context.__init__ (lines 39-47).
ContextInit ==
    /\ fixups = <<>>
    /\ cached_insts = <<>>
    /\ departments = {}
    /\ searched = <<>>
    /\ returned = <<>>
    /\ last_call = <<>>

\* The upload's variables while the model follows a migration.
UploadIdle ==
    /\ endpoint = <<>>
    /\ previous_report = NoFile
    /\ documents = <<>>
    /\ remote = {}
    /\ id_map = EmptyMap
    /\ pos = 0
    /\ reports = <<>>
    /\ requests = <<>>
    /\ r = NoResponse
    /\ prev_read = FALSE
    /\ upc = "idle"
    /\ exc = "none"
    /\ run = 0

\* ---- a Context used on its own: any calls, fixups replaced at any time
InitContext ==
    /\ ContextInit
    /\ fixups_file = NoFixups
    /\ rows = <<>>
    /\ index = 0
    /\ mapping = <<>>
    /\ out = <<>>
    /\ mpc = "context"
    /\ mexc = "none"
    /\ UploadIdle
    /\ HuntIdle

\* context.fixups.update(...) (line 94), whenever the owner of the Context
\* chooses.
UpdateFixups ==
    /\ mpc = "context"
    /\ \E fx \in FixupLists : fixups' = fx
    /\ UNCHANGED <<fixups_file, rows, cached_insts, departments, searched,
                   returned, last_call, index, mapping, out, mpc, mexc>>
    /\ UNCHANGED <<upload_vars, hunt_vars>>

\* context.resolve_institution(inst_name), for any name.
CallResolve ==
    /\ mpc = "context"
    /\ \E inst_name \in DeptTexts :
       \E res \in resolve_institution(fixups, cached_insts, inst_name) :
          /\ cached_insts' = res.cache
          /\ searched' = note_searches(searched, inst_name, res.trace)
          /\ returned' = note_return(returned, fixups, inst_name, res)
          /\ last_call' = Call(inst_name, res)
    /\ UNCHANGED <<fixups_file, rows, fixups, departments, index, mapping, out,
                   mpc, mexc>>
    /\ UNCHANGED <<upload_vars, hunt_vars>>

NextContext ==
    \/ UpdateFixups
    \/ CallResolve

SpecContext == InitContext /\ [][NextContext]_vars

\* ---- one hunt (lines 57-83), the directory's three replies being given
InitHunt ==
    /\ hname \in DeptTexts
    /\ hreplies \in [DOMAIN Prefixes -> SearchReplies]
    /\ hk = 0
    /\ hresult = None
    /\ hpc = "hunting"
    /\ UploadIdle
    /\ MigrateIdle

\* One turn of the loop over the prefixes (lines 63-81).
HuntStep ==
    /\ hpc = "hunting"
    /\ hk < Len(Prefixes)
    /\ LET search == Prefixes[hk + 1] \o hname
           reply == hreplies[hk + 1]
           got == candidate(search, reply.matches)
       IN  /\ hk' = hk + 1
           /\ IF reply.raised
              THEN hpc' = "raised" /\ hresult' = hresult
              ELSE IF got.accepted
                   THEN hpc' = "done" /\ hresult' = got.instid
                   ELSE hpc' = hpc /\ hresult' = hresult
    /\ UNCHANGED <<hname, hreplies>>
    /\ UNCHANGED <<upload_vars, migrate_vars>>

\* The loop has run out of prefixes (line 83).
HuntReturn ==
    /\ hpc = "hunting"
    /\ hk = Len(Prefixes)
    /\ hpc' = "done"
    /\ UNCHANGED <<hname, hreplies, hk, hresult>>
    /\ UNCHANGED <<upload_vars, migrate_vars>>

NextHunt ==
    \/ HuntStep
    \/ HuntReturn

SpecHunt == InitHunt /\ [][NextHunt]_vars

\* ---- a migration run (main, lines 86-100)
sorted_reversed(depts) ==
    LET Seen(d) == d \in depts
        up == SelectSeq(DeptOrder, Seen)
    IN  [i \in DOMAIN up |-> up[Len(up) + 1 - i]]

\* sorted(list(context.departments))
sorted(depts) ==
    LET Seen(d) == d \in depts IN SelectSeq(DeptOrder, Seen)

\* str(index)
str(i) == <<"0", "1", "2", "3", "4", "5", "6", "7", "8", "9">>[i + 1]

\* uuid.uuid5(MIGRATION_NS, text): a function of the text alone.
uuid5(text) == <<"uuid5", text>>

\* migrate_row (lines 157-193), given the department resolve_institution
\* returned, for the fields the model keeps.
\* extract_row (lines 103-129): row[49] of the cells left after the skip
\* raises IndexError when there are not that many.
extract_row_padded(row) ==
    [raised |-> FALSE,
     original |-> [faculty_dept_inst |-> row.faculty_dept_inst, name |-> row.name]]

extract_row(row) ==
    [raised |-> row.cells - skip_cols <= LastColumn,
     original |-> [faculty_dept_inst |-> row.faculty_dept_inst, name |-> row.name]]

\* Lines 164-165: the text the asset's id is the hash of.
asset_id_by_index(i, name) == uuid5(str(i))

asset_id(i, name) == uuid5(IF name # "" THEN name ELSE str(i))

migrate_row_without_errors(i, original, department) ==
    [type |-> "asset",
     asset |-> [id |-> asset_id(i, original.name), name |-> original.name,
                department |-> department],
     original |-> original]

\* Lines 164-193 of migrate_row, the row extracted and its department resolved.
migrate_row(i, original, department) ==
    LET asset == [id |-> asset_id(i, original.name),
                  name |-> original.name,
                  department |-> department]
        return_val == [type |-> "asset", asset |-> asset, original |-> original]
    IN  IF department = None
        THEN dict_set(return_val, "errors",
                      <<[code |-> "E001", message |-> "Department could not be resolved"]>>)
        ELSE return_val

InitMigrate ==
    /\ ContextInit
    /\ fixups_file \in {NoFixups} \cup FixupLists
    /\ rows \in SeqsUpTo(Rows, MaxRows)
    /\ index = 0
    /\ mapping = <<>>
    /\ out = <<>>
    /\ mpc = "start"
    /\ mexc = "none"
    /\ UploadIdle
    /\ HuntIdle

\* Lines 90-94.
LoadFixups ==
    /\ mpc = "start"
    /\ fixups' = IF fixups_file = NoFixups THEN <<>> ELSE fixups_file
    /\ mpc' = "rows"
    /\ UNCHANGED <<fixups_file, rows, cached_insts, departments, searched,
                   returned, last_call, index, mapping, out, mexc>>
    /\ UNCHANGED <<upload_vars, hunt_vars>>

\* One turn of the loop of migrate_rows (lines 145-146).
MigrateRow ==
    /\ mpc = "rows"
    /\ index < Len(rows)
    /\ LET extracted == extract_row(rows[index + 1])
           original == extracted.original
           dept == original.faculty_dept_inst
       IN  IF extracted.raised
           THEN /\ mpc' = "raised"
                /\ mexc' = "IndexError"
                /\ UNCHANGED <<cached_insts, departments, searched, returned,
                               last_call, out>>
           ELSE /\ departments' = departments \cup {dept}
                /\ \E res \in resolve_institution(fixups, cached_insts, dept) :
                     /\ cached_insts' = res.cache
                     /\ searched' = note_searches(searched, dept, res.trace)
                     /\ returned' = note_return(returned, fixups, dept, res)
                     /\ last_call' = Call(dept, res)
                     /\ IF res.raised
                        THEN /\ mpc' = "raised"
                             /\ mexc' = "IbisException"
                             /\ out' = out
                        ELSE /\ out' = Append(out, migrate_row(index, original,
                                                               res.instid))
                             /\ UNCHANGED <<mpc, mexc>>
    /\ index' = index + 1
    /\ UNCHANGED <<fixups_file, rows, fixups, mapping>>
    /\ UNCHANGED <<upload_vars, hunt_vars>>

\* One entry of the report's list comprehension (lines 150-153).
ReportEntry ==
    /\ mpc = "rows"
    /\ index = Len(rows)
    /\ Len(mapping) < Len(sorted(departments))
    /\ LET dept == sorted(departments)[Len(mapping) + 1]
       IN  \E res \in resolve_institution(fixups, cached_insts, dept) :
                /\ cached_insts' = res.cache
                /\ searched' = note_searches(searched, dept, res.trace)
                /\ returned' = note_return(returned, fixups, dept, res)
                /\ last_call' = Call(dept, res)
                /\ IF res.raised
                   THEN /\ mpc' = "raised"
                        /\ mexc' = "IbisException"
                        /\ mapping' = mapping
                   ELSE /\ mapping' = Append(mapping,
                                        [original |-> dept, instid |-> res.instid])
                        /\ UNCHANGED <<mpc, mexc>>
    /\ UNCHANGED <<fixups_file, rows, fixups, departments, index, out>>
    /\ UNCHANGED <<upload_vars, hunt_vars>>

\* The trailing report is yielded (lines 148-154).
YieldReport ==
    /\ mpc = "rows"
    /\ index = Len(rows)
    /\ Len(mapping) = Len(sorted(departments))
    /\ out' = Append(out, [type |-> "report", original_dept_mapping |-> mapping])
    /\ mpc' = "done"
    /\ UNCHANGED <<fixups_file, rows, fixups, cached_insts, departments, searched,
                   returned, last_call, index, mapping, mexc>>
    /\ UNCHANGED <<upload_vars, hunt_vars>>

NextMigrate ==
    \/ LoadFixups
    \/ MigrateRow
    \/ ReportEntry
    \/ YieldReport

SpecMigrate == InitMigrate /\ [][NextMigrate]_vars

\* ============================================================ upload claims
\* A step of SpecUpload in which process_documents takes an asset document.
DocStep == upc = "process" /\ next_asset(pos) # 0 /\ pos' = next_asset(pos)

\* The requests issued by the step.
NewRequests == SubSeq(requests', Len(requests) + 1, Len(requests'))

\* The asset documents of the whole input, in order.
AllAssets == assets_read(Len(documents))

\* C1: for every asset document taken, the requests issued are: with a
\* mapping to d, first a GET of endpoint+d+'/', then, if the GET returned
\* found (200), exactly one PUT to endpoint+d+'/' and no POST, and if it
\* returned 404, exactly one POST to the endpoint and no PUT; with no
\* mapping, no GET and exactly one POST to the endpoint.
C1_CreateOrUpdate ==
    [][DocStep =>
        LET id == documents[next_asset(pos)].asset.id
            new == NewRequests
            Shape(k, method, url) ==
                Len(new) >= k /\ new[k].method = method /\ new[k].url = url
        IN  IF id \in DOMAIN id_map
            THEN LET u == endpoint \o <<id_map[id]>> \o <<"/">>
                 IN  /\ Shape(1, "GET", u)
                     /\ new[1].status = 200 => Len(new) = 2 /\ Shape(2, "PUT", u)
                     /\ new[1].status = 404 => Len(new) = 2 /\ Shape(2, "POST", endpoint)
            ELSE Len(new) = 1 /\ Shape(1, "POST", endpoint)
    ]_vars

\* C1 witness: a stale mapping was found (GET 404) and the asset was posted,
\* and a live mapping was found (GET 200) and the asset was put.
C1_Witness ==
    /\ \E k \in 1..(Len(requests) - 1) :
          /\ requests[k].method = "GET" /\ requests[k].status = 404
          /\ requests[k + 1].method = "POST"
    /\ \E k \in 1..(Len(requests) - 1) :
          /\ requests[k].method = "GET" /\ requests[k].status = 200
          /\ requests[k + 1].method = "PUT"

\* The upload reports of the run before this one (its --previous-report).
PriorReports == yaml_load_all(previous_report.file)

\* C2: in a run given the report of the run before it, every asset that
\* was created (a POST report with a dest_id) in the run before has a PUT
\* report, and no POST report, once the run has ended (runs that a transport
\* error ended are left aside here: C7 is about them).
C2_NoDuplicateCreates ==
    (run > 1 /\ upc \in {"done", "raised"} /\ exc # "ConnectionError") =>
        \A k \in DOMAIN PriorReports :
            LET p == PriorReports[k] IN
            (p["method"] = "POST" /\ "dest_id" \in DOMAIN p) =>
                /\ \E j \in DOMAIN reports :
                      reports[j].source_id = p["source_id"] /\ reports[j].method = "PUT"
                /\ \A j \in DOMAIN reports :
                      reports[j].source_id = p["source_id"] => reports[j].method # "POST"

\* C3: when the create or update request of an asset returns a non-success
\* response, the step yields a report with the response body as error and no
\* dest_id, and the run goes on; when it returns success, the report has the
\* dest_id of the response body and no error.
C3_BatchIsolation ==
    [][(DocStep /\ NewRequests # <<>>
               /\ NewRequests[Len(NewRequests)].method \in {"PUT", "POST"}
               /\ NewRequests[Len(NewRequests)].status # -1) =>
        LET failed == NewRequests[Len(NewRequests)].status >= 400
        IN  /\ Len(reports') = Len(reports) + 1
            /\ SubSeq(reports', 1, Len(reports)) = reports
            /\ upc' = "process" /\ exc' = "none"
            /\ LET report == reports'[Len(reports')]
               IN  IF failed
                   THEN /\ "error" \in DOMAIN report /\ report["error"] = r'.content
                        /\ "dest_id" \notin DOMAIN report
                   ELSE /\ "dest_id" \in DOMAIN report /\ report["dest_id"] = r'.id
                        /\ "error" \notin DOMAIN report
    ]_vars

\* C3 witness: a failed asset was reported and a later asset was saved.
C3_Witness ==
    /\ Len(reports) = 2
    /\ "error" \in DOMAIN reports[1]
    /\ "dest_id" \in DOMAIN reports[2]

C6_OwnReportLoads ==
    (run > 1 /\ upc \notin {"start", "load"}) =>
        /\ exc # "KeyError"
        /\ DOMAIN id_map =
              {PriorReports[k]["source_id"] :
                  k \in {j \in DOMAIN PriorReports : "dest_id" \in DOMAIN PriorReports[j]}}

\* C7: however a request fails, the asset gets its report and the run is
\* not ended by it: every asset document read has a report and no transport
\* error ends the run.
C7_FailuresNeverAbort ==
    /\ exc # "ConnectionError"
    /\ Len(reports) = Len(assets_read(pos))

\* C8: with an endpoint that does not end with '/', the run raises before
\* anything else: the previous report is not read, no document is read, no
\* request is issued and no report is yielded.
C8_EndpointFailsFast ==
    (endpoint = <<>> \/ endpoint[Len(endpoint)] # "/") =>
        /\ upc \in {"start", "raised"}
        /\ upc = "raised" => exc = "RuntimeError"
        /\ prev_read = FALSE
        /\ pos = 0
        /\ requests = <<>>
        /\ reports = <<>>
        /\ id_map = EmptyMap

\* C8 witness: a run with asset documents, a previous report and an endpoint
\* with the slash in the wrong place has raised.
C8_Witness ==
    /\ endpoint = <<"/", "h">>
    /\ ~previous_report.is_none
    /\ AllAssets # <<>>
    /\ exc = "RuntimeError"

\* =========================================================== migrate claims
\* The candidates of a name, in the order they are searched for.
Candidates(inst_name) == [k \in DOMAIN Prefixes |-> Prefixes[k] \o inst_name]

IsPrefixOf(s, t) == Len(s) <= Len(t) /\ SubSeq(t, 1, Len(s)) = s

\* C9: a call of resolve_institution for a name that has a fixup returns the
\* instid of the (first) fixup record for it, whatever the cache holds for
\* the name; it makes no directory search and leaves the cache as it was.
C9_FixupWins ==
    [][(last_call' # last_call /\ fixups' = fixups) =>
        LET call == last_call'[1]
            hits == {i \in DOMAIN fixups : fixups[i].original = call.name}
        IN  hits # {} =>
              /\ call.instid = fixups[CHOOSE i \in hits : \A j \in hits : i <= j].instid
              /\ call.trace = <<>>
              /\ ~call.raised
              /\ searched' = searched
              /\ cached_insts' = cached_insts
    ]_vars

\* C9 witness: a name with a fixup was resolved to the fixup's instid while
\* the cache held another instid for it.
C9_Witness ==
    /\ last_call # <<>>
    /\ fixups # <<>>
    /\ fixups[1].original = last_call[1].name
    /\ last_call[1].instid = fixups[1].instid
    /\ last_call[1].name \in DOMAIN cached_insts
    /\ cached_insts[last_call[1].name] \notin {None, fixups[1].instid}

\* C10 as stated: no name has had more than one directory search made for it.
C10_OneSearchPerName ==
    \A n \in DOMAIN searched : Len(searched[n]) <= 1

\* C10 as amended: the searches made for a name are its candidates in order,
\* each at most once: at most three searches per distinct name, all made by
\* one call of resolve_institution.
C10_OneHuntPerName ==
    \A n \in DOMAIN searched : IsPrefixOf(searched[n], Candidates(n))

\* C10 witness: a finished run over two rows with the same department, for
\* which all three candidates were searched.
C10_Witness ==
    /\ mpc = "done"
    /\ Len(rows) = 2
    /\ rows[1].faculty_dept_inst = rows[2].faculty_dept_inst
    /\ rows[1].faculty_dept_inst \in DOMAIN searched
    /\ Len(searched[rows[1].faculty_dept_inst]) = 3

\* ---- the hunt against given replies
\* The places in the k-th reply whose institution is named as the k-th
\* candidate is.
ExactPlaces(k) ==
    {i \in DOMAIN hreplies[k].matches :
        hreplies[k].matches[i].name = Candidates(hname)[k]}

Acceptable(k) ==
    /\ ~hreplies[k].raised
    /\ \/ Cardinality(ExactPlaces(k)) = 1
       \/ Len(hreplies[k].matches) = 1

AcceptedInstid(k) ==
    IF Cardinality(ExactPlaces(k)) = 1
    THEN hreplies[k].matches[CHOOSE i \in ExactPlaces(k) : TRUE].instid
    ELSE hreplies[k].matches[1].instid

\* C11: a hunt (no fixup, no cache entry) searches for the name, then for
\* 'Department of ' + name, then for 'Faculty of ' + name, and returns the
\* first acceptable candidate's institution: the single exact match where
\* there is exactly one, else the only match where the reply has exactly one
\* element; a reply of any other size is passed over.  It searches nothing
\* after the candidate it accepted, and returns None when all three were
\* passed over.
C11_FirstAcceptableCandidate ==
    /\ hpc = "hunting" => \A j \in 1..hk : ~Acceptable(j)
    /\ hpc = "done" =>
          /\ \A j \in 1..(hk - 1) : ~Acceptable(j)
          /\ IF hk \in DOMAIN Prefixes /\ Acceptable(hk)
             THEN hresult = AcceptedInstid(hk)
             ELSE hk = Len(Prefixes) /\ hresult = None

\* A hunt that passed over the name's own reply of two and took the only,
\* differently named match of the second candidate.
C11_Witness ==
    /\ hpc = "done"
    /\ hk = 2
    /\ Len(hreplies[1].matches) = 2
    /\ ExactPlaces(1) = {}
    /\ ExactPlaces(2) = {}
    /\ hresult = hreplies[2].matches[1].instid

\* ---- the documents of a migration run
\* The place of a department text in the order of Python's string comparison.
Rank(d) == CHOOSE k \in DOMAIN DeptOrder : DeptOrder[k] = d

\* C12: migrate_rows yields one asset document per row, in the rows' order,
\* and a report only after the asset document of every row, as the last
\* document (so also with no rows at all); a run that ends has yielded
\* exactly one report, and it lists the distinct department texts of the
\* rows once each, in sorted order.
C12_AssetsThenReport ==
    /\ Len(out) <= Len(rows) + 1
    /\ \A i \in DOMAIN out :
          IF i <= Len(rows)
          THEN /\ out[i].type = "asset"
               /\ out[i].original.name = rows[i].name
               /\ out[i].original.faculty_dept_inst = rows[i].faculty_dept_inst
          ELSE out[i].type = "report"
    /\ mpc = "done" =>
          /\ Len(out) = Len(rows) + 1
          /\ LET m == out[Len(out)].original_dept_mapping
             IN  /\ {m[i].original : i \in DOMAIN m}
                       = {rows[i].faculty_dept_inst : i \in DOMAIN rows}
                 /\ \A i, j \in DOMAIN m :
                       i < j => Rank(m[i].original) < Rank(m[j].original)

\* A finished run over two rows whose departments come in descending order.
C12_Witness ==
    /\ mpc = "done"
    /\ Len(rows) = 2
    /\ Rank(rows[1].faculty_dept_inst) > Rank(rows[2].faculty_dept_inst)
    /\ Len(out[3].original_dept_mapping) = 2

\* Has the row the cells extract_row reads?
WellFormed(row) == row.cells - skip_cols > LastColumn

HasE001(doc) ==
    /\ "errors" \in DOMAIN doc
    /\ \E k \in DOMAIN doc.errors : doc.errors[k].code = "E001"

\* C13: for a well-formed row whose department lookup did not raise,
\* migrate_row emits an asset document whose department is what the resolver
\* returned; the document has an errors list, holding an E001 entry, exactly
\* when the department is unresolved (None).
C13_E001IffUnresolved ==
    [][(index' = index + 1 /\ WellFormed(rows[index + 1]) /\ mpc' # "raised") =>
        /\ Len(out') = Len(out) + 1
        /\ SubSeq(out', 1, Len(out)) = out
        /\ LET doc == out'[Len(out')]
           IN  /\ doc.type = "asset"
               /\ doc.asset.department = last_call'[1].instid
               /\ HasE001(doc) <=> doc.asset.department = None
               /\ "errors" \in DOMAIN doc <=> doc.asset.department = None]_vars

\* A run that has emitted an asset with E001 and then a resolved one.
C13_Witness ==
    /\ Len(out) >= 2
    /\ HasE001(out[1])
    /\ out[1].asset.department = None
    /\ out[2].type = "asset"
    /\ out[2].asset.department # None
    /\ "errors" \notin DOMAIN out[2]

\* C14: when, migrating the row at position i, the row proves too short for
\* extract_row or a directory search raises, migrate_rows ends there: what it
\* has yielded is the asset documents of the rows before i, nothing for the
\* row at i, and nothing is yielded afterwards, so never the report.
C14_StructuralFailuresAbort ==
    [][/\ mpc # "raised"
       /\ (/\ index' = index + 1
           /\ \/ ~WellFormed(rows[index + 1])
              \/ last_call'[1].raised) =>
             /\ mpc' = "raised"
             /\ out' = out
             /\ Len(out) = index
             /\ \A i \in DOMAIN out :
                   /\ out[i].type = "asset"
                   /\ out[i].original.name = rows[i].name]_vars

\* A run ended by a short second row, the first row's asset yielded.
C14_Witness ==
    /\ mpc = "raised"
    /\ mexc = "IndexError"
    /\ index = 2
    /\ ~WellFormed(rows[2])
    /\ Len(out) = 1
    /\ out[1].type = "asset"

\* C15: the id of a row with a non-empty name is the hash of the name alone,
\* so the same name gives the same id at any position of any run; rows with
\* empty names at different positions get different ids.
C15_IdFromNameOrPosition ==
    \A i, j \in DOMAIN out :
        (out[i].type = "asset" /\ out[j].type = "asset") =>
            /\ out[i].asset.name # "" => out[i].asset.id = uuid5(out[i].asset.name)
            /\ (out[i].asset.name # "" /\ out[i].asset.name = out[j].asset.name)
                   => out[i].asset.id = out[j].asset.id
            /\ (i # j /\ out[i].asset.name = "" /\ out[j].asset.name = "")
                   => out[i].asset.id # out[j].asset.id

\* Two rows of one non-empty name have been migrated.
C15_Witness ==
    /\ Len(out) >= 2
    /\ out[1].type = "asset"
    /\ out[2].type = "asset"
    /\ out[1].asset.name = out[2].asset.name
    /\ out[1].asset.name # ""
    /\ out[1].asset.id = out[2].asset.id

\* C16: when a hunt returns the institution of a sole match that is not an
\* exact one, none of the three candidates' searches has exactly one exact
\* match.
C16_SoleFuzzyOnlyWithoutExact ==
    (/\ hpc = "done"
     /\ hk \in DOMAIN Prefixes
     /\ Acceptable(hk)
     /\ ExactPlaces(hk) = {}) =>
        \A k \in DOMAIN Prefixes :
            hreplies[k].raised \/ Cardinality(ExactPlaces(k)) # 1

\* C17: once a call for a name that has no fixup has returned, every later
\* call for the name, while it has no fixup, returns that same result and
\* searches the directory for nothing, whatever the directory would answer
\* now.
C17_CachedResultSticks ==
    [][(/\ last_call' # last_call \/ searched' # searched
        /\ last_call'[1].name \in DOMAIN returned
        /\ \A i \in DOMAIN fixups : fixups[i].original # last_call'[1].name) =>
           /\ ~last_call'[1].raised
           /\ last_call'[1].instid = returned[last_call'[1].name]
           /\ last_call'[1].trace = <<>>
           /\ searched' = searched
           /\ returned' = returned]_vars

\* A name that came back unresolved from its searches has been asked for
\* again and answered without a search.
C17_Witness ==
    /\ last_call # <<>>
    /\ last_call[1].name \in DOMAIN returned
    /\ returned[last_call[1].name] = None
    /\ last_call[1].name \in DOMAIN searched
    /\ \A i \in DOMAIN fixups : fixups[i].original # last_call[1].name
    /\ last_call[1].trace = <<>>
    /\ last_call[1].instid = None

\* C18: within a run, the id of a row with an empty name differs from the id
\* of every other row, named or not.
C18_UnnamedIdsApart ==
    \A i, j \in DOMAIN out :
        (/\ i # j
         /\ out[i].type = "asset"
         /\ out[j].type = "asset"
         /\ out[i].asset.name = "") => out[i].asset.id # out[j].asset.id

\* C19: in a run that has ended, every asset document's original department
\* has an entry in the report whose instid is the asset's department, None
\* exactly when the asset carries E001; and building the report searches the
\* directory for nothing and cannot fail.
C19_ReportAgreesWithAssets ==
    /\ [](mpc = "done" =>
            LET m == out[Len(out)].original_dept_mapping IN
            \A i \in 1..(Len(out) - 1) :
                \E k \in DOMAIN m :
                    /\ m[k].original = out[i].original.faculty_dept_inst
                    /\ m[k].instid = out[i].asset.department
                    /\ m[k].instid = None <=> HasE001(out[i]))
    /\ [][(mpc = "rows" /\ index = Len(rows)) =>
             /\ searched' = searched
             /\ cached_insts' = cached_insts
             /\ mpc' # "raised"]_vars

\* A finished run whose report has an unresolved and a resolved department.
C19_Witness ==
    /\ mpc = "done"
    /\ Len(out) = 3
    /\ HasE001(out[1])
    /\ ~HasE001(out[2])
    /\ Len(out[3].original_dept_mapping) = 2

\* C20: a turn of process_documents leaves the id map as it was loaded, so
\* the dest_id a create returned is not used for a later document of the
\* run: every asset document whose source id has no upload report in the
\* previous report is sent as one POST, with no GET, even when a document of
\* the same source id was created earlier in the run.
C20_IdMapFrame ==
    /\ [][upc = "process" => id_map' = id_map]_vars
    /\ [][(upc = "process" /\ pos' # pos /\ upc' # "done") =>
          LET source_id == documents[pos'].asset.id
          IN  (\A k \in DOMAIN PriorReports :
                     \/ "type" \notin DOMAIN PriorReports[k]
                     \/ PriorReports[k]["type"] # "upload"
                     \/ PriorReports[k]["source_id"] # source_id) =>
                       /\ Len(NewRequests) = 1
                       /\ NewRequests[1].method = "POST"]_vars

\* Two documents of one source id, unknown to the previous report, have each
\* been created.
C20_Witness ==
    /\ Len(reports) = 2
    /\ reports[1].source_id = reports[2].source_id
    /\ reports[1].method = "POST"
    /\ reports[2].method = "POST"
    /\ "dest_id" \in DOMAIN reports[1]
    /\ "dest_id" \in DOMAIN reports[2]
    /\ id_map = EmptyMap

====
